---------------------------- MODULE Spec2Model ----------------------------
(* Model of the Mushland game engine (src/src/App.tsx): the deck builder   *)
(* createDeck, the initial state and the reducer with its three actions    *)
(* DRAW, PLAY and ACTIVATE.                                                *)
EXTENDS Integers, Sequences, FiniteSets, TLC

(***************************************************************************)
(* Bounds of the model.                                                    *)
(***************************************************************************)
\* Number of random streams Math.random() is drawn from (one shuffle each).
NumSeeds == 1
\* In one run of the game the player plays from one position of the hand,
\* which is at most MaxPick.
MaxPick == 2
\* ACTIVATE is explored only while nutrients stay at or below this value.
MaxNutrients == 8
\* Repeated activation of one habitat is followed for this many applications.
MaxRepeat == 3
\* With the drag tracker in play, the Draw button is pressed only while fewer
\* than MaxDrawn cards have left the deck.
MaxDrawn == 4

(***************************************************************************)
(* Types & cards.                                                          *)
(***************************************************************************)
Habitat == {"forest", "log", "soil"}

\* power: Power | null; null is the string "null".
Power == {"gainSpore", "gainNutrient", "drawCard"}

BASE_CARDS ==
  << [name |-> "Fly Agaric",  habitat |-> "forest", cost |-> 2, points |-> 2, power |-> "gainSpore"],
     [name |-> "Shiitake",    habitat |-> "log",    cost |-> 1, points |-> 3, power |-> "gainNutrient"],
     [name |-> "Lion's Mane", habitat |-> "forest", cost |-> 2, points |-> 4, power |-> "drawCard"],
     [name |-> "Morel",       habitat |-> "soil",   cost |-> 3, points |-> 3, power |-> "gainSpore"],
     [name |-> "Oyster",      habitat |-> "log",    cost |-> 1, points |-> 2, power |-> "gainNutrient"],
     [name |-> "Reishi",      habitat |-> "forest", cost |-> 4, points |-> 5, power |-> "gainNutrient"] >>

\* Number of instances of each template (the outer loop of createDeck).
Copies == 6

\* Capacity of a habitat (the PLAY validation).
Capacity == 5

\* nutrients of the initial state.
InitNutrients == 8

\* { ...c, id }
Mushroom(c, id) ==
  [id |-> id, name |-> c.name, habitat |-> c.habitat, cost |-> c.cost,
   points |-> c.points, power |-> c.power]

\* The deck before the shuffle: for i in 0..5, every template in catalog
\* order, ids counting up from idCounter = 0.
UnshuffledDeck ==
  [p \in 1..(Copies * Len(BASE_CARDS)) |->
     Mushroom(BASE_CARDS[((p - 1) % Len(BASE_CARDS)) + 1], p - 1)]

\* idCounter after the deck has been built: the first id no card has.
idCounter == Copies * Len(BASE_CARDS)

\* Math.floor(Math.random() * (i + 1)): an index in 0..i, taken from the
\* pseudo-random stream numbered seed.
RandomIndex(seed, i) == ((seed * 17 + i * 7 + seed * i * i) % 101) % (i + 1)

\* Swap that copies deck[j] over deck[i] and loses deck[i].
Swap_Overwrite(deck, i, j) == [deck EXCEPT ![i + 1] = deck[j + 1]]

\* [deck[i], deck[j]] = [deck[j], deck[i]] on 0-based indices.
Swap(deck, i, j) ==
  [deck EXCEPT ![i + 1] = deck[j + 1], ![j + 1] = deck[i + 1]]

\* for (let i = deck.length - 1; i > 0; i--) swap deck[i], deck[random j]
RECURSIVE ShuffleFrom(_, _, _)
ShuffleFrom(deck, i, seed) ==
  IF i > 0
    THEN ShuffleFrom(Swap(deck, i, RandomIndex(seed, i)), i - 1, seed)
    ELSE deck

createDeck(seed) == ShuffleFrom(UnshuffledDeck, Len(UnshuffledDeck) - 1, seed)

initialState(seed) ==
  [deck      |-> createDeck(seed),
   hand      |-> << >>,
   habitats  |-> [h \in Habitat |-> << >>],
   nutrients |-> InitNutrients,
   spores    |-> 0,
   score     |-> 0]


(***************************************************************************)
(* Game logic: the reducer.                                                *)
(***************************************************************************)
VARIABLES
  state,   \* the State held by useReducer
  prev,    \* the State the last dispatched action was applied to
  last,    \* the last dispatched Action ([type |-> "INIT"] before any)
  pick,    \* the position of the hand the player plays from in this run
  dragging,  \* dragging.current: the carried card (<< >> for null), x, y
  zones,   \* the bounding rectangle of each habitat element
  ui       \* the last pointer event: its kind, the card carried before
           \* it, the actions it dispatched, the zones it tested

vars == << state, prev, last, pick, dragging, zones, ui >>

DrawAction == [type |-> "DRAW"]
PlayAction(cardId, habitat) ==
  [type |-> "PLAY", payload |-> [cardId |-> cardId, habitat |-> habitat]]
ActivateAction(habitat) == [type |-> "ACTIVATE", payload |-> habitat]

\* DrawCard taking the card from the back of the deck.
DrawCard_FromBack(s) ==
  IF Len(s.deck) = 0
    THEN s
    ELSE [s EXCEPT !.hand = Append(s.hand, s.deck[Len(s.deck)]),
                   !.deck = SubSeq(s.deck, 1, Len(s.deck) - 1)]

\* case 'DRAW': the front of the deck goes to the end of the hand.
DrawCard(s) ==
  IF Len(s.deck) = 0
    THEN s
    ELSE [s EXCEPT !.hand = Append(s.hand, s.deck[1]), !.deck = Tail(s.deck)]

\* state.hand.find(c => c.id === cardId): the position of the first card of
\* the hand with that id, 0 when there is none (undefined).
FindCard(hand, cardId) ==
  IF \E p \in 1..Len(hand) : hand[p].id = cardId
    THEN CHOOSE p \in 1..Len(hand) :
           /\ hand[p].id = cardId
           /\ \A q \in 1..(p - 1) : hand[q].id # cardId
    ELSE 0

\* RemoveCard leaving the played card in the hand.
RemoveCard_KeepsCard(hand, cardId) == hand

\* state.hand.filter(c => c.id !== cardId)
RemoveCard(hand, cardId) == SelectSeq(hand, LAMBDA c : c.id # cardId)

\* PlayAccepted without the capacity test of the early return.
PlayAccepted_NoCapacity(s, cardId, habitat) ==
  LET p == FindCard(s.hand, cardId) IN
    ~ ( \/ p = 0
        \/ s.hand[p].habitat # habitat
        \/ s.nutrients < s.hand[p].cost )

\* PlayAccepted without the cost test of the early return.
PlayAccepted_NoCost(s, cardId, habitat) ==
  LET p == FindCard(s.hand, cardId) IN
    ~ ( \/ p = 0
        \/ s.hand[p].habitat # habitat
        \/ Len(s.habitats[habitat]) >= Capacity )

\* PlayAccepted that also refuses a drawCard card when the deck is empty.
PlayAccepted_NeedsDeck(s, cardId, habitat) ==
  LET p == FindCard(s.hand, cardId) IN
    ~ ( \/ p = 0
        \/ s.hand[p].habitat # habitat
        \/ s.nutrients < s.hand[p].cost
        \/ Len(s.habitats[habitat]) >= Capacity
        \/ (s.hand[p].power = "drawCard" /\ Len(s.deck) = 0) )

\* The negation of the early return of case 'PLAY'.
PlayAccepted(s, cardId, habitat) ==
  LET p == FindCard(s.hand, cardId) IN
    ~ ( \/ p = 0
        \/ s.hand[p].habitat # habitat
        \/ s.nutrients < s.hand[p].cost
        \/ Len(s.habitats[habitat]) >= Capacity )

\* PlayCard putting the card at the front of the habitat.
PlayCard_Prepend(s, card, habitat) ==
  [s EXCEPT !.nutrients = s.nutrients - card.cost,
            !.hand      = RemoveCard(s.hand, card.id),
            !.habitats  = [s.habitats EXCEPT ![habitat] = << card >> \o s.habitats[habitat]],
            !.score     = s.score + card.points]

\* PlayCard that scores the points of the card twice.
PlayCard_DoublePoints(s, card, habitat) ==
  [s EXCEPT !.nutrients = s.nutrients - card.cost,
            !.hand      = RemoveCard(s.hand, card.id),
            !.habitats  = [s.habitats EXCEPT ![habitat] = Append(s.habitats[habitat], card)],
            !.score     = s.score + 2 * card.points]

\* const newState = { ...state, nutrients, hand, habitats, score }
PlayCard(s, card, habitat) ==
  [s EXCEPT !.nutrients = s.nutrients - card.cost,
            !.hand      = RemoveCard(s.hand, card.id),
            !.habitats  = [s.habitats EXCEPT ![habitat] = Append(s.habitats[habitat], card)],
            !.score     = s.score + card.points]

\* GainSpore applied whatever the power of the card.
GainSpore_AnyPower(s, card) == [s EXCEPT !.spores = s.spores + 1]

\* if (card.power === 'gainSpore') newState.spores += 1
GainSpore(s, card) ==
  IF card.power = "gainSpore" THEN [s EXCEPT !.spores = s.spores + 1] ELSE s

\* GainNutrient applied whatever the power of the card (powers stacking).
GainNutrient_AnyPower(s, card) == [s EXCEPT !.nutrients = s.nutrients + 1]

\* if (card.power === 'gainNutrient') newState.nutrients += 1
GainNutrient(s, card) ==
  IF card.power = "gainNutrient" THEN [s EXCEPT !.nutrients = s.nutrients + 1] ELSE s

\* ActivateHabitat that stops paying once nutrients would pass 10.
ActivateHabitat_Limited(s, habitat) ==
  IF s.nutrients + Len(s.habitats[habitat]) > 10
    THEN s
    ELSE [s EXCEPT !.nutrients = s.nutrients + Len(s.habitats[habitat])]

\* ActivateHabitat that also adds the harvest to the score.
ActivateHabitat_Scores(s, habitat) ==
  [s EXCEPT !.nutrients = s.nutrients + Len(s.habitats[habitat]),
            !.score     = s.score + Len(s.habitats[habitat])]

\* case 'ACTIVATE'
ActivateHabitat(s, habitat) ==
  [s EXCEPT !.nutrients = s.nutrients + Len(s.habitats[habitat])]

RECURSIVE reducer(_, _)

\* DrawPower without the nested DRAW.
DrawPower_NoDraw(s, card) == s

\* if (card.power === 'drawCard') return reducer(newState, { type: 'DRAW' })
\* return newState
DrawPower(s, card) ==
  IF card.power = "drawCard" THEN reducer(s, DrawAction) ELSE s

reducer(s, action) ==
  CASE action.type = "DRAW" -> DrawCard(s)
    [] action.type = "PLAY" ->
         LET cardId  == action.payload.cardId
             habitat == action.payload.habitat
         IN IF ~ PlayAccepted(s, cardId, habitat)
              THEN s
              ELSE LET card     == s.hand[FindCard(s.hand, cardId)]
                       newState == GainNutrient(GainSpore(PlayCard(s, card, habitat), card), card)
                   IN DrawPower(newState, card)
    [] action.type = "ACTIVATE" -> ActivateHabitat(s, action.payload)
    [] OTHER -> s

(***************************************************************************)
(* The drag tracker of the component.                                      *)
(***************************************************************************)
\* useRef({ card: null, x: 0, y: 0 }); a null card is the empty sequence, a
\* carried card the sequence of that one card.
initialDragging == [card |-> << >>, x |-> 0, y |-> 0]

\* el.getBoundingClientRect() of the three habitat elements: a row of
\* adjacent zones, and a layout whose zones overlap.
RowLayout ==
  [h \in Habitat |->
     CASE h = "forest" -> [left |-> 0, right |-> 2, top |-> 0, bottom |-> 2]
       [] h = "log"    -> [left |-> 2, right |-> 4, top |-> 0, bottom |-> 2]
       [] h = "soil"   -> [left |-> 4, right |-> 6, top |-> 0, bottom |-> 2]]

OverlapLayout ==
  [h \in Habitat |->
     CASE h = "forest" -> [left |-> 0, right |-> 4, top |-> 0, bottom |-> 2]
       [] h = "log"    -> [left |-> 2, right |-> 6, top |-> 0, bottom |-> 2]
       [] h = "soil"   -> [left |-> 4, right |-> 8, top |-> 0, bottom |-> 2]]

Layouts == { RowLayout, OverlapLayout }

\* (e.clientX, e.clientY) of the pointer events that are followed: inside
\* the first zone, on the edge between two zones of the row, inside a second
\* zone, inside a third, and below every zone.
Pointers ==
  { [x |-> 1, y |-> 1], [x |-> 2, y |-> 1], [x |-> 3, y |-> 1],
    [x |-> 5, y |-> 1], [x |-> 3, y |-> 2] }

\* dragging.current = { card, x: e.clientX, y: e.clientY }
startDrag(card, x, y) == [card |-> << card >>, x |-> x, y |-> y]

\* onMouseMove without the test that a card is carried.
onMouseMove_NoGuard(d, x, y) == [d EXCEPT !.x = x, !.y = y]

\* if (dragging.current.card) dragging.current = { ...dragging.current, x, y }
onMouseMove(d, x, y) ==
  IF d.card # << >> THEN [d EXCEPT !.x = x, !.y = y] ELSE d

\* The rectangle test looking at x only.
Contains_IgnoresY(r, x, y) == x > r.left /\ x < r.right

\* x > r.left && x < r.right && y > r.top && y < r.bottom
Contains(r, x, y) == x > r.left /\ x < r.right /\ y > r.top /\ y < r.bottom

\* The zones in the opposite order.
ZoneOrder_Reversed == << "soil", "log", "forest" >>

\* for (const hab of ['forest', 'log', 'soil'] as const)
ZoneOrder == << "forest", "log", "soil" >>

RECURSIVE ZoneLoop(_, _, _)

\* The loop going on to the next zone after a hit.
AfterHit_NoBreak(i, d, zs) == ZoneLoop(i + 1, d, zs)

\* break: no zone after the hit is looked at, nothing more is dispatched.
AfterHit(i, d, zs) == [emitted |-> << >>, tested |-> << >>]

\* The zone loop of onMouseUp from the i-th zone on: the actions it
\* dispatches and the zones whose rectangle it reads.
ZoneLoop(i, d, zs) ==
  IF i > Len(ZoneOrder)
    THEN [emitted |-> << >>, tested |-> << >>]
    ELSE LET hab == ZoneOrder[i] IN
           IF Contains(zs[hab], d.x, d.y)
             THEN LET rest == AfterHit(i, d, zs) IN
                    [emitted |-> << PlayAction(d.card[1].id, hab) >> \o rest.emitted,
                     tested  |-> << hab >> \o rest.tested]
             ELSE LET rest == ZoneLoop(i + 1, d, zs) IN
                    [emitted |-> rest.emitted, tested |-> << hab >> \o rest.tested]

\* onMouseUp leaving the card in dragging.current.
ClearCard_Keeps(d) == d

\* dragging.current.card = null
ClearCard(d) == [d EXCEPT !.card = << >>]

\* dispatch applied to each action of a sequence, in order.
RECURSIVE dispatchAll(_, _)
dispatchAll(s, actions) ==
  IF actions = << >>
    THEN s
    ELSE dispatchAll(reducer(s, actions[1]), Tail(actions))

(***************************************************************************)
(* The state machine: dispatch(action) replaces state by reducer(state,    *)
(* action).                                                                *)
(***************************************************************************)
NoPointerEvent ==
  [event |-> "none", card |-> << >>, emitted |-> << >>, tested |-> << >>]

Init ==
  /\ \E seed \in 1..NumSeeds : state = initialState(seed)
  /\ prev = state
  /\ last = [type |-> "INIT"]
  /\ pick \in 1..MaxPick
  /\ dragging = initialDragging
  /\ zones = RowLayout
  /\ ui = NoPointerEvent

dispatch(action) ==
  /\ state' = reducer(state, action)
  /\ prev' = state
  /\ last' = action
  /\ pick' = pick
  /\ dragging' = dragging
  /\ zones' = zones
  /\ ui' = NoPointerEvent

\* The card ids a PLAY is tried with: the card at position pick of the hand
\* and one id no card of the hand has (the front card of the deck, or the
\* first unused id when the deck is empty).
PickIds ==
  { state.hand[p].id : p \in { q \in {pick} : q <= Len(state.hand) } }
    \cup { IF Len(state.deck) > 0 THEN state.deck[1].id ELSE idCounter }

Draw == dispatch(DrawAction)

Play == \E cardId \in PickIds, habitat \in Habitat : dispatch(PlayAction(cardId, habitat))

Activate ==
  \E habitat \in Habitat :
    /\ state.nutrients + Len(state.habitats[habitat]) <= MaxNutrients
    /\ dispatch(ActivateAction(habitat))

Next == Draw \/ Play \/ Activate

Spec == Init /\ [][Next]_vars

(***************************************************************************)
(* The component: the engine is reached through the Draw button, a click   *)
(* on a habitat and the release of a dragged card.                         *)
(***************************************************************************)
\* The component is followed on the deck of the first random stream.
InitUI ==
  /\ state = initialState(1)
  /\ prev = state
  /\ last = [type |-> "INIT"]
  /\ pick = 1
  /\ dragging = initialDragging
  /\ zones \in Layouts
  /\ ui = NoPointerEvent

\* A pointer event that dispatches the actions of sequence emitted.
pointerEvent(event, d, emitted, tested) ==
  /\ state' = dispatchAll(state, emitted)
  /\ prev' = state
  /\ last' = IF emitted = << >> THEN [type |-> "NONE"] ELSE emitted[Len(emitted)]
  /\ pick' = pick
  /\ dragging' = d
  /\ zones' = zones
  /\ ui' = [event |-> event, card |-> dragging.card,
            emitted |-> emitted, tested |-> tested]

\* onClick of the Draw button.
DrawClick ==
  /\ idCounter - Len(state.deck) < MaxDrawn
  /\ Draw

\* onClick of a habitat.
ActivateClick == Activate

\* onMouseDown of a hand card, one of the first MaxPick of the hand; the
\* card being carried is hidden and takes no pointer event.
MouseDown ==
  \E p \in { q \in 1..MaxPick : q <= Len(state.hand) }, e \in Pointers :
    /\ dragging.card # << state.hand[p] >>
    /\ pointerEvent("mousedown", startDrag(state.hand[p], e.x, e.y), << >>, << >>)

\* The mousemove listener of the window.
MouseMove ==
  \E e \in Pointers :
    pointerEvent("mousemove", onMouseMove(dragging, e.x, e.y), << >>, << >>)

\* The mouseup listener of the window (onMouseUp).
MouseUp ==
  IF dragging.card = << >>
    THEN pointerEvent("mouseup", dragging, << >>, << >>)
    ELSE LET loop == ZoneLoop(1, dragging, zones) IN
           pointerEvent("mouseup", ClearCard(dragging), loop.emitted, loop.tested)

NextUI == DrawClick \/ ActivateClick \/ MouseDown \/ MouseMove \/ MouseUp

SpecUI == InitUI /\ [][NextUI]_vars

(***************************************************************************)
(* Vocabulary of the properties: what an action was applied to (prev),     *)
(* which action it was (last) and what came out (state).                   *)
(***************************************************************************)
\* The positions of hand cards of state s whose id is cardId.
HandPositions(s, cardId) == { p \in 1..Len(s.hand) : s.hand[p].id = cardId }

\* The four validations of Play(cardId, habitat) on state s.
InHand(s, cardId) == HandPositions(s, cardId) # {}
HabitatMatches(s, cardId, habitat) ==
  \A p \in HandPositions(s, cardId) : s.hand[p].habitat = habitat
Affordable(s, cardId) ==
  \A p \in HandPositions(s, cardId) : s.nutrients >= s.hand[p].cost
HasRoom(s, habitat) == Len(s.habitats[habitat]) < 5

PassesValidation(s, cardId, habitat) ==
  /\ InHand(s, cardId)
  /\ HabitatMatches(s, cardId, habitat)
  /\ Affordable(s, cardId)
  /\ HasRoom(s, habitat)

\* The hand card of s with id cardId (when there is one).
HandCard(s, cardId) == s.hand[CHOOSE p \in HandPositions(s, cardId) : TRUE]

\* Sequence q without its p-th element, the others in their order.
WithoutPos(q, p) ==
  [i \in 1..(Len(q) - 1) |-> IF i < p THEN q[i] ELSE q[i + 1]]

\* The hand of s without the card with id cardId.
HandWithout(s, cardId) ==
  WithoutPos(s.hand, CHOOSE p \in HandPositions(s, cardId) : TRUE)

IsPrefix(a, b) ==
  /\ Len(a) <= Len(b)
  /\ \A i \in 1..Len(a) : a[i] = b[i]

LastIsPlay == last.type = "PLAY"
LastCardId == last.payload.cardId
LastHabitat == last.payload.habitat

\* The last action was a Play that passed the four validations.
LastPlayValid == LastIsPlay /\ PassesValidation(prev, LastCardId, LastHabitat)

\* The card the last (valid) Play played.
LastCard == HandCard(prev, LastCardId)

(***************************************************************************)
(* C1                                                                      *)
(***************************************************************************)
\* C1: in every reachable state nutrients >= 0, spores >= 0 and each of the
\* three habitats holds at most 5 cards.
C1_Conservation ==
  /\ state.nutrients >= 0
  /\ state.spores >= 0
  /\ \A h \in Habitat : Len(state.habitats[h]) <= 5

\* A sixth card of the right habitat and of affordable cost has just been
\* played on a habitat that holds 5 cards.
C1_Witness ==
  /\ LastIsPlay
  /\ InHand(prev, LastCardId)
  /\ HabitatMatches(prev, LastCardId, LastHabitat)
  /\ Affordable(prev, LastCardId)
  /\ Len(prev.habitats[LastHabitat]) = 5

\* Nutrients have been spent down to zero.
C1_NutrientsExhausted == LastPlayValid /\ state.nutrients = 0

(***************************************************************************)
(* C2                                                                      *)
(***************************************************************************)
\* C2: a Play whose card is not in the hand, or whose card belongs to another
\* habitat, or costs more than the nutrients at hand, or targets a habitat
\* that already holds 5 cards, leaves every field of the state as it was.
C2_RejectedPlayUnchanged ==
  ( /\ LastIsPlay
    /\ \/ ~ InHand(prev, LastCardId)
       \/ ~ HabitatMatches(prev, LastCardId, LastHabitat)
       \/ ~ Affordable(prev, LastCardId)
       \/ Len(prev.habitats[LastHabitat]) = 5 )
  => /\ state.deck = prev.deck
     /\ state.hand = prev.hand
     /\ state.habitats = prev.habitats
     /\ state.nutrients = prev.nutrients
     /\ state.spores = prev.spores
     /\ state.score = prev.score

\* A Play has just been tried whose only failing validation is the cost.
C2_Witness ==
  /\ LastIsPlay
  /\ InHand(prev, LastCardId)
  /\ HabitatMatches(prev, LastCardId, LastHabitat)
  /\ HasRoom(prev, LastHabitat)
  /\ ~ Affordable(prev, LastCardId)

\* The other reasons of rejection occur too.
C2_NotInHandTried == LastIsPlay /\ ~ InHand(prev, LastCardId)
C2_MismatchTried ==
  /\ LastIsPlay
  /\ InHand(prev, LastCardId)
  /\ ~ HabitatMatches(prev, LastCardId, LastHabitat)
  /\ Affordable(prev, LastCardId)
  /\ HasRoom(prev, LastHabitat)

(***************************************************************************)
(* C3                                                                      *)
(***************************************************************************)
\* C3: a Play that passes the four validations removes the card from the
\* hand (the other cards keep their order), appends it to the target habitat
\* (the other two unchanged), takes card.cost from nutrients and adds
\* card.points to score; then one power is resolved: gainSpore adds 1 to
\* spores, gainNutrient adds 1 to nutrients; a card without the drawCard
\* power leaves the deck unchanged.
C3_PlayEffects ==
  LastPlayValid =>
    LET card == LastCard
        rest == HandWithout(prev, LastCardId)
    IN /\ IF card.power = "drawCard"
            THEN IsPrefix(rest, state.hand)
            ELSE state.hand = rest /\ state.deck = prev.deck
       /\ state.habitats[LastHabitat] = prev.habitats[LastHabitat] \o << card >>
       /\ \A h \in Habitat \ {LastHabitat} : state.habitats[h] = prev.habitats[h]
       /\ state.score = prev.score + card.points
       /\ state.nutrients =
            prev.nutrients - card.cost + (IF card.power = "gainNutrient" THEN 1 ELSE 0)
       /\ state.spores = prev.spores + (IF card.power = "gainSpore" THEN 1 ELSE 0)

\* A gainSpore card has just been played from the middle of the hand.
C3_Witness ==
  /\ LastPlayValid
  /\ LastCard.power = "gainSpore"
  /\ HandPositions(prev, LastCardId) = {2}
  /\ Len(prev.hand) >= 3
  /\ state.spores = prev.spores + 1

\* A gainNutrient card has just been played.
C3_GainNutrientPlayed == LastPlayValid /\ LastCard.power = "gainNutrient"

(***************************************************************************)
(* C4                                                                      *)
(***************************************************************************)
\* The play effects alone of the last (valid) Play: remove from hand, append
\* to habitat, subtract cost, add points.
PlayEffectsAlone ==
  [deck      |-> prev.deck,
   hand      |-> HandWithout(prev, LastCardId),
   habitats  |-> [h \in Habitat |->
                    IF h = LastHabitat
                      THEN prev.habitats[h] \o << LastCard >>
                      ELSE prev.habitats[h]],
   nutrients |-> prev.nutrients - LastCard.cost,
   spores    |-> prev.spores,
   score     |-> prev.score + LastCard.points]

\* A Draw applied to state s: the front card of the deck, when there is one,
\* goes to the end of the hand.
AfterDraw(s) ==
  IF s.deck = << >>
    THEN s
    ELSE [deck      |-> SubSeq(s.deck, 2, Len(s.deck)),
          hand      |-> s.hand \o << s.deck[1] >>,
          habitats  |-> s.habitats,
          nutrients |-> s.nutrients,
          spores    |-> s.spores,
          score     |-> s.score]

\* C4: a valid Play of a drawCard card lands, in one step, on the state that
\* the play effects alone followed by a Draw produce; with a non-empty deck
\* the hand keeps its size, the deck is shorter by one, and the state after
\* the play effects alone is not the state the step lands on.
C4_PlayThenDraw ==
  (LastPlayValid /\ LastCard.power = "drawCard") =>
    /\ state = AfterDraw(PlayEffectsAlone)
    /\ prev.deck # << >> =>
         /\ Len(state.hand) = Len(prev.hand)
         /\ Len(state.deck) = Len(prev.deck) - 1
         /\ state # PlayEffectsAlone

\* A drawCard card has just been played while the deck was not empty.
C4_Witness ==
  /\ LastPlayValid
  /\ LastCard.power = "drawCard"
  /\ prev.deck # << >>
  /\ state.hand[Len(state.hand)] = prev.deck[1]

(***************************************************************************)
(* C5                                                                      *)
(***************************************************************************)
\* C5: Draw with a non-empty deck moves the front card of the deck to the
\* end of the hand and leaves habitats, nutrients, spores and score as they
\* were; Draw with an empty deck leaves the state as it was.
C5_Draw ==
  last.type = "DRAW" =>
    IF prev.deck # << >>
      THEN /\ state.deck = SubSeq(prev.deck, 2, Len(prev.deck))
           /\ state.hand = prev.hand \o << prev.deck[1] >>
           /\ state.habitats = prev.habitats
           /\ state.nutrients = prev.nutrients
           /\ state.spores = prev.spores
           /\ state.score = prev.score
      ELSE state = prev

\* A Draw has just added a card to a non-empty hand from a deck of several.
C5_Witness ==
  /\ last.type = "DRAW"
  /\ Len(prev.deck) >= 2
  /\ prev.hand # << >>
  /\ Len(state.hand) = Len(prev.hand) + 1

\* A Draw has just been applied to an empty deck.
C5_EmptyDeckDrawn == last.type = "DRAW" /\ prev.deck = << >>

(***************************************************************************)
(* C6                                                                      *)
(***************************************************************************)
\* The action applied k times in a row, starting from state s.
RECURSIVE ApplyTimes(_, _, _)
ApplyTimes(s, action, k) ==
  IF k = 0 THEN s ELSE ApplyTimes(reducer(s, action), action, k - 1)

\* State s with n more nutrients and nothing else changed.
WithNutrientsAdded(s, n) ==
  [deck      |-> s.deck,
   hand      |-> s.hand,
   habitats  |-> s.habitats,
   nutrients |-> s.nutrients + n,
   spores    |-> s.spores,
   score     |-> s.score]

\* C6: Activate(h) adds the number of cards of habitat h to nutrients (zero
\* on an empty habitat) and changes nothing else; applied k times in a row to
\* any reachable state it adds k times that number, whatever the nutrients.
C6_Activate ==
  /\ last.type = "ACTIVATE" =>
       state = WithNutrientsAdded(prev, Len(prev.habitats[last.payload]))
  /\ \A h \in Habitat, k \in 0..MaxRepeat :
       ApplyTimes(state, ActivateAction(h), k) =
         WithNutrientsAdded(state, k * Len(state.habitats[h]))

\* A habitat of several cards has just been activated.
C6_Witness ==
  /\ last.type = "ACTIVATE"
  /\ Len(prev.habitats[last.payload]) >= 2
  /\ state.nutrients = prev.nutrients + Len(prev.habitats[last.payload])

\* An empty habitat has just been activated.
C6_EmptyActivated == last.type = "ACTIVATE" /\ prev.habitats[last.payload] = << >>

(***************************************************************************)
(* C7                                                                      *)
(***************************************************************************)
\* Every card of state s: deck, hand, then the three habitats.
AllCards(s) ==
  s.deck \o s.hand \o s.habitats["forest"] \o s.habitats["log"] \o s.habitats["soil"]

\* C7: the cards of the deck, the hand and the three habitats have pairwise
\* distinct ids; they are the cards created at deck construction, each
\* present once, 36 in all.
C7_CardsConserved ==
  LET all == AllCards(state) IN
    /\ Len(all) = 36
    /\ \A i, j \in 1..Len(all) : i # j => all[i].id # all[j].id
    /\ { all[i] : i \in 1..Len(all) } =
         { UnshuffledDeck[i] : i \in 1..Len(UnshuffledDeck) }

\* A card has just been played, and deck, hand and every habitat hold cards.
C7_Witness ==
  /\ LastPlayValid
  /\ state.deck # << >>
  /\ state.hand # << >>
  /\ \A h \in Habitat : state.habitats[h] # << >>

(***************************************************************************)
(* C8                                                                      *)
(***************************************************************************)
\* C8: every step leaves the previous sequence of each habitat as a prefix
\* of its new sequence.
C8_AppendOnly ==
  [][\A h \in Habitat : IsPrefix(state.habitats[h], state'.habitats[h])]_vars

\* A card has just been played on a habitat that already held cards.
C8_Witness ==
  /\ LastPlayValid
  /\ Len(prev.habitats[LastHabitat]) >= 2
  /\ Len(state.habitats[LastHabitat]) = Len(prev.habitats[LastHabitat]) + 1

(***************************************************************************)
(* C9                                                                      *)
(***************************************************************************)
\* The step is a Play that passes the four validations.
StepIsValidPlay ==
  /\ last'.type = "PLAY"
  /\ PassesValidation(state, last'.payload.cardId, last'.payload.habitat)

\* C9: no step lowers the score, and a step that changes it is a valid Play.
C9_ScoreMonotone ==
  [][ /\ state'.score >= state.score
      /\ state'.score # state.score => StepIsValidPlay ]_vars

\* A Play has just raised a score that was already positive.
C9_Witness == LastPlayValid /\ state.score > prev.score /\ prev.score > 0

(***************************************************************************)
(* C10                                                                     *)
(***************************************************************************)
\* The step is a valid Play of a card whose power is gainSpore.
StepPlaysSporeCard ==
  /\ StepIsValidPlay
  /\ HandCard(state, last'.payload.cardId).power = "gainSpore"

\* C10: no step lowers spores; a valid Play of a gainSpore card adds exactly
\* 1, and every other step (Draw, Activate, rejected Play, Play of another
\* card) leaves spores as they were.
C10_SporesOnlyByGainSpore ==
  [][ /\ state'.spores >= state.spores
      /\ IF StepPlaysSporeCard
           THEN state'.spores = state.spores + 1
           ELSE state'.spores = state.spores ]_vars

\* A second spore has just been gained by playing a gainSpore card.
C10_Witness ==
  /\ LastPlayValid
  /\ LastCard.power = "gainSpore"
  /\ prev.spores >= 1
  /\ state.spores = prev.spores + 1

(***************************************************************************)
(* C17                                                                     *)
(***************************************************************************)
\* The positions of deck d that hold an instance of template c.
InstancesOf(d, c) ==
  { i \in 1..Len(d) :
      /\ d[i].name = c.name
      /\ d[i].habitat = c.habitat
      /\ d[i].cost = c.cost
      /\ d[i].points = c.points
      /\ d[i].power = c.power }

\* C17: the initial state has an empty hand, three empty habitats,
\* nutrients = 8, spores = 0, score = 0 and a deck of 36 cards holding 6
\* instances of each of the 6 catalog templates.
C17_InitialState ==
  last.type = "INIT" =>
    /\ state.hand = << >>
    /\ \A h \in Habitat : state.habitats[h] = << >>
    /\ state.nutrients = 8
    /\ state.spores = 0
    /\ state.score = 0
    /\ Len(state.deck) = 36
    /\ Len(BASE_CARDS) = 6
    /\ \A t \in 1..Len(BASE_CARDS) :
         Cardinality(InstancesOf(state.deck, BASE_CARDS[t])) = 6

\* The initial state, with a deck that the shuffle has reordered.
C17_Witness ==
  /\ last.type = "INIT"
  /\ state.deck # UnshuffledDeck
  /\ Len(state.deck) = 36

(***************************************************************************)
(* C18                                                                     *)
(***************************************************************************)
\* C18: a valid Play of a drawCard card on an empty deck succeeds in full:
\* the card goes from the hand to the habitat, the cost is taken, the points
\* are added, the hand is shorter by exactly one and the deck stays empty.
C18_DrawPowerOnEmptyDeck ==
  ( /\ LastIsPlay
    /\ PassesValidation(prev, LastCardId, LastHabitat)
    /\ LastCard.power = "drawCard"
    /\ prev.deck = << >> )
  => /\ state.deck = << >>
     /\ state.hand = HandWithout(prev, LastCardId)
     /\ Len(state.hand) = Len(prev.hand) - 1
     /\ state.habitats[LastHabitat] = prev.habitats[LastHabitat] \o << LastCard >>
     /\ state.nutrients = prev.nutrients - LastCard.cost
     /\ state.score = prev.score + LastCard.points
     /\ state.spores = prev.spores

\* A drawCard card has just been played while the deck was empty.
C18_Witness ==
  /\ LastPlayValid
  /\ LastCard.power = "drawCard"
  /\ prev.deck = << >>
  /\ Len(state.habitats[LastHabitat]) = Len(prev.habitats[LastHabitat]) + 1

(***************************************************************************)
(* C19                                                                     *)
(***************************************************************************)
\* The cards played so far in state s, habitat after habitat.
PlayedCards(s) == s.habitats["forest"] \o s.habitats["log"] \o s.habitats["soil"]

\* The sum of the points of the cards of sequence q.
RECURSIVE SumPoints(_)
SumPoints(q) == IF q = << >> THEN 0 ELSE q[1].points + SumPoints(Tail(q))

\* C19: score is the sum of the points of the cards in the three habitats,
\* and spores is the number of gainSpore cards in the three habitats.
C19_ScoreAndSporesFromBoard ==
  LET played == PlayedCards(state) IN
    /\ state.score = SumPoints(played)
    /\ state.spores =
         Cardinality({ i \in 1..Len(played) : played[i].power = "gainSpore" })

\* Cards with and without the gainSpore power have been played.
C19_Witness ==
  LET played == PlayedCards(state) IN
    /\ LastPlayValid
    /\ \E i \in 1..Len(played) : played[i].power = "gainSpore"
    /\ \E i \in 1..Len(played) : played[i].power # "gainSpore"
    /\ state.spores >= 2

(***************************************************************************)
(* Vocabulary of the tracker properties.  The tracker is Dragging when it  *)
(* carries a card and Idle when it carries none.                           *)
(***************************************************************************)
\* The last event was a pointer-up received while Dragging.
ReleasedDrag == ui.event = "mouseup" /\ ui.card # << >>

\* The point (x, y) lies inside rectangle r.
PointInRect(r, x, y) == r.left < x /\ x < r.right /\ r.top < y /\ y < r.bottom

\* The zones in the order forest, log, soil.
FixedOrder == << "forest", "log", "soil" >>

\* The positions in FixedOrder of the zones that contain the point where the
\* pointer was released.
ZonesHit ==
  { i \in 1..Len(FixedOrder) : PointInRect(zones[FixedOrder[i]], dragging.x, dragging.y) }

FirstZoneHit == CHOOSE i \in ZonesHit : \A j \in ZonesHit : i <= j

\* Every field of the game state is as before the last event.
GameStateUnchanged ==
  /\ state.deck = prev.deck
  /\ state.hand = prev.hand
  /\ state.habitats = prev.habitats
  /\ state.nutrients = prev.nutrients
  /\ state.spores = prev.spores
  /\ state.score = prev.score

(***************************************************************************)
(* C11                                                                     *)
(***************************************************************************)
\* C11: after every pointer-up received while Dragging the tracker is Idle,
\* carrying no card; a pointer-up emits at most one action, a Play.
C11_ReleaseReturnsToIdle ==
  /\ ReleasedDrag => dragging.card = << >>
  /\ ui.event = "mouseup" =>
       /\ Len(ui.emitted) <= 1
       /\ \A i \in 1..Len(ui.emitted) : ui.emitted[i].type = "PLAY"

\* A drag has just been released where two zones overlap, and the engine
\* rejected the Play that was emitted.
C11_Witness ==
  /\ ReleasedDrag
  /\ Cardinality(ZonesHit) >= 2
  /\ Len(ui.emitted) = 1
  /\ GameStateUnchanged
  /\ dragging.card = << >>

\* A drag has just been released and the engine accepted the Play.
C11_AcceptedRelease ==
  /\ ReleasedDrag
  /\ Len(ui.emitted) = 1
  /\ Len(state.hand) < Len(prev.hand) \/ Len(state.deck) < Len(prev.deck)

(***************************************************************************)
(* C12                                                                     *)
(***************************************************************************)
\* C12: a drag released at a point inside no zone emits no action, leaves
\* the tracker Idle and leaves the game state unchanged.
C12_ReleaseOutsideZones ==
  (ReleasedDrag /\ ZonesHit = {}) =>
    /\ ui.emitted = << >>
    /\ dragging.card = << >>
    /\ GameStateUnchanged

\* A drag has just been released below the zones, level with one of them.
C12_Witness ==
  /\ ReleasedDrag
  /\ ZonesHit = {}
  /\ \E h \in Habitat : zones[h].left < dragging.x /\ dragging.x < zones[h].right
  /\ dragging.card = << >>

\* A drag has just been released on the edge shared by two zones.
C12_ReleasedOnEdge ==
  /\ ReleasedDrag
  /\ ZonesHit = {}
  /\ \E h \in Habitat : zones[h].right = dragging.x

(***************************************************************************)
(* C13                                                                     *)
(***************************************************************************)
\* The Play the last release emitted.
EmittedPlay == ui.emitted[1]

C13_MismatchDropped ==
  /\ ReleasedDrag
  /\ Len(ui.emitted) = 1
  /\ ui.card[1].habitat # EmittedPlay.payload.habitat
  /\ GameStateUnchanged

(***************************************************************************)
(* C14                                                                     *)
(***************************************************************************)
\* C14: a pointer-move changes no field of the game state and emits no
\* action; while Dragging it changes at most the stored x and y, and while
\* Idle it changes nothing.
C14_MoveOnlyUpdatesPosition ==
  [][ ui'.event = "mousemove" =>
        /\ state' = state
        /\ ui'.emitted = << >>
        /\ zones' = zones
        /\ dragging'.card = dragging.card
        /\ dragging.card = << >> => dragging' = dragging ]_vars

\* A pointer-move has just been received while Dragging.
C14_Witness ==
  /\ ui.event = "mousemove"
  /\ ui.card # << >>
  /\ dragging.card = ui.card
  /\ state = prev

\* A pointer-move has just been received while Idle.
C14_MovedWhileIdle == ui.event = "mousemove" /\ ui.card = << >>

(***************************************************************************)
(* C15                                                                     *)
(***************************************************************************)
\* C15: while the tracker is Dragging, no event other than a pointer-up
\* (pointer-move, another pointer-down, Draw, Activate) changes the card it
\* carries.
C15_CardFixedDuringDrag ==
  [][ (dragging.card # << >> /\ ui'.event # "mouseup") =>
        dragging'.card = dragging.card ]_vars

\* The part of C15 that the code keeps: pointer-move, Draw and Activate
\* leave the carried card alone.
C15_CardFixedExceptPointerDown ==
  [][ (dragging.card # << >> /\ ui'.event \notin {"mouseup", "mousedown"}) =>
        dragging'.card = dragging.card ]_vars

\* A pointer-down has just been received while a card was being carried.
C15_SecondPointerDown == ui.event = "mousedown" /\ ui.card # << >>

(***************************************************************************)
(* C20                                                                     *)
(***************************************************************************)
\* C20: the carried card is in the hand at every moment of a drag, and the
\* card of a Play emitted by the tracker is in the hand the Play is applied
\* to.
C20_CarriedCardInHand ==
  /\ dragging.card # << >> =>
       \E p \in 1..Len(state.hand) : state.hand[p] = dragging.card[1]
  /\ \A i \in 1..Len(ui.emitted) :
       InHand(prev, ui.emitted[i].payload.cardId)

\* A Draw or an Activate has just been applied in the middle of a drag.
C20_Witness ==
  /\ last.type \in {"DRAW", "ACTIVATE"}
  /\ ui.event = "none"
  /\ dragging.card # << >>
  /\ state # prev

\* A drag has just ended in a Play that the engine accepted.
C20_EmittedPlayAccepted ==
  /\ ReleasedDrag
  /\ Len(ui.emitted) = 1
  /\ PassesValidation(prev, EmittedPlay.payload.cardId, EmittedPlay.payload.habitat)

=============================================================================
